---- MODULE Spec2Model ----
(***************************************************************************)
(* DebugAssist: text normalizer, rule classifier, retrieval index and the  *)
(* diagnosis orchestrator (predict.main).                                  *)
(*                                                                         *)
(* A Python str is modelled as a sequence of one-character strings, so     *)
(* that the regular expressions of preprocess.py and rules.py can be       *)
(* evaluated character by character.                                       *)
(***************************************************************************)
EXTENDS Integers, Sequences, FiniteSets, TLC

VARIABLES
    \* normalize_text applied to an input, and again to its own output
    nPc, nIn, nOut, nAgain,
    \* rule_predict applied to an input
    rPc, rIn, rOut,
    \* data/debug_cases.csv (rows in file order), models/tfidf.joblib (the
    \* fitted vectorizer) and the tie order of numpy's argsort
    df, vectorizer, argsortTies,
    \* the RetrievalIndex object, and one query call on it
    index, iPc, qText, qTopK, results,
    \* which of the files exist: models/tfidf.joblib, models/clf.joblib,
    \* and what debugassist/playbooks.yaml and data/debug_cases.csv hold
    tfidfExists, clfExists, playbookFile, dataFile,
    \* one run of predict.main: its arguments, its locals, what it called
    \* and what it printed
    pc, text, code, top_k, raw_input, family, method, confidence,
    top_candidates, clf, playbooks, calls, out, error

normVars == <<nPc, nIn, nOut, nAgain>>
ruleVars == <<rPc, rIn, rOut>>
fileVars == <<df, vectorizer, argsortTies>>
idxVars == <<index, iPc, qText, qTopK, results>>
envVars == <<tfidfExists, clfExists, playbookFile, dataFile>>
argVars == <<text, code, top_k>>
reqVars == <<pc, raw_input, family, method, confidence, top_candidates, clf,
             playbooks, calls, out, error>>
vars == <<normVars, ruleVars, fileVars, idxVars, envVars, argVars, reqVars>>

(***************************************************************************)
(* Characters                                                              *)
(***************************************************************************)
LowerLetters ==
    {"a","b","c","d","e","f","g","h","i","j","k","l","m",
     "n","o","p","q","r","s","t","u","v","w","x","y","z"}

UpperLetters ==
    {"A","B","C","D","E","F","G","H","I","J","K","L","M",
     "N","O","P","Q","R","S","T","U","V","W","X","Y","Z"}

Digits == {"0","1","2","3","4","5","6","7","8","9"}

HexDigits == Digits \cup {"a","b","c","d","e","f","A","B","C","D","E","F"}

\* \s of the re module, restricted to the ASCII characters the inputs use
Whitespace == {" ", "\t", "\n", "\r"}

\* \w of the re module (ASCII part)
IsWord(c) == c \in LowerLetters \cup UpperLetters \cup Digits \cup {"_"}

ToLower ==
    "A" :> "a" @@ "B" :> "b" @@ "C" :> "c" @@ "D" :> "d" @@ "E" :> "e" @@
    "F" :> "f" @@ "G" :> "g" @@ "H" :> "h" @@ "I" :> "i" @@ "J" :> "j" @@
    "K" :> "k" @@ "L" :> "l" @@ "M" :> "m" @@ "N" :> "n" @@ "O" :> "o" @@
    "P" :> "p" @@ "Q" :> "q" @@ "R" :> "r" @@ "S" :> "s" @@ "T" :> "t" @@
    "U" :> "u" @@ "V" :> "v" @@ "W" :> "w" @@ "X" :> "x" @@ "Y" :> "y" @@
    "Z" :> "z"

LowerChar(c) == IF c \in UpperLetters THEN ToLower[c] ELSE c

\* str.lower()
Lower(t) == [i \in 1..Len(t) |-> LowerChar(t[i])]

\* str.strip(): drop leading and trailing whitespace
RECURSIVE LStrip(_)
LStrip(t) ==
    IF t # <<>> /\ Head(t) \in Whitespace THEN LStrip(Tail(t)) ELSE t

RECURSIVE RStrip(_)
RStrip(t) ==
    IF t # <<>> /\ t[Len(t)] \in Whitespace
    THEN RStrip(SubSeq(t, 1, Len(t) - 1))
    ELSE t

Strip(t) == RStrip(LStrip(t))

\* the character at position i, or the empty string outside the text
At(t, i) == IF i >= 1 /\ i <= Len(t) THEN t[i] ELSE ""

\* \b between positions k and k+1 (both may lie outside the text)
Boundary(t, k) == IsWord(At(t, k)) # IsWord(At(t, k + 1))

\* last index of the maximal run of characters of class S starting at i
\* (i - 1 when t[i] is not in S)
RECURSIVE RunEnd(_, _, _)
RunEnd(t, i, S) ==
    IF i <= Len(t) /\ t[i] \in S THEN RunEnd(t, i + 1, S) ELSE i - 1

\* last index of the maximal run of characters NOT in S starting at i
RECURSIVE RunEndNot(_, _, _)
RunEndNot(t, i, S) ==
    IF i <= Len(t) /\ t[i] \notin S THEN RunEndNot(t, i + 1, S) ELSE i - 1

\* whether the literal lit occurs in t at position i
LitAt(lit, t, i) ==
    /\ i >= 1
    /\ i + Len(lit) - 1 <= Len(t)
    /\ \A k \in 1..Len(lit) : t[i + k - 1] = lit[k]

(***************************************************************************)
(* preprocess.py: the patterns.  MatchEnd(p, t, i) is the index of the     *)
(* last character of the match the re engine finds for pattern p anchored  *)
(* at position i of t, and 0 when the pattern does not match there.        *)
(***************************************************************************)
PATH_TOKEN == <<"<","P","A","T","H",">">>
LINE_TOKEN == <<"l","i","n","e"," ","<","L","I","N","E",">">>
HEX_TOKEN == <<"<","H","E","X",">">>
STR_TOKEN == <<"<","S","T","R",">">>
NUM_TOKEN == <<"<","N","U","M",">">>
SPACE_TOKEN == <<" ">>

\* X+ (sep X+)* taken greedily from position j, X = [^sep\n]
RECURSIVE SegsEnd(_, _, _)
SegsEnd(t, j, sep) ==
    LET e == RunEndNot(t, j, {sep, "\n"})
    IN  IF e < j THEN 0
        ELSE IF At(t, e + 1) = sep
                /\ e + 2 <= Len(t) /\ t[e + 2] \notin {sep, "\n"}
             THEN SegsEnd(t, e + 2, sep)
             ELSE e

\* _WINDOWS_PATH_RE  [A-Za-z]:\\(?:[^\\\n]+\\)*[^\\\n]+
WindowsPathEnd(t, i) ==
    IF /\ t[i] \in LowerLetters \cup UpperLetters
       /\ At(t, i + 1) = ":"
       /\ At(t, i + 2) = "\\"
    THEN SegsEnd(t, i + 3, "\\")
    ELSE 0

\* _UNIX_PATH_RE  (?:/[^/\n]+)+
UnixPathEnd(t, i) ==
    IF t[i] = "/" THEN SegsEnd(t, i + 1, "/") ELSE 0

\* _LINE_NUMBER_RE  \bline\s+\d+\b  (IGNORECASE)
LineNumberEnd(t, i) ==
    IF /\ i + 3 <= Len(t)
       /\ Lower(SubSeq(t, i, i + 3)) = <<"l","i","n","e">>
       /\ Boundary(t, i - 1)
    THEN LET w == RunEnd(t, i + 4, Whitespace)
             d == RunEnd(t, w + 1, Digits)
         IN  IF w >= i + 4 /\ d >= w + 1 /\ Boundary(t, d) THEN d ELSE 0
    ELSE 0

\* _HEX_RE  \b0x[0-9a-fA-F]+\b
HexEnd(t, i) ==
    IF t[i] = "0" /\ At(t, i + 1) = "x" /\ Boundary(t, i - 1)
    THEN LET h == RunEnd(t, i + 2, HexDigits)
         IN  IF h >= i + 2 /\ Boundary(t, h) THEN h ELSE 0
    ELSE 0

\* the lazy body of _QUOTED_STR_RE: from j, the first unescaped quote q on
\* the same line; a backslash takes the next character with it
RECURSIVE QuoteClose(_, _, _)
QuoteClose(t, j, q) ==
    IF j > Len(t) THEN 0
    ELSE IF t[j] = q THEN j
    ELSE IF t[j] = "\\"
         THEN IF j + 1 <= Len(t) /\ t[j + 1] # "\n"
              THEN QuoteClose(t, j + 2, q)
              ELSE 0
    ELSE IF t[j] = "\n" THEN 0
    ELSE QuoteClose(t, j + 1, q)

\* _QUOTED_STR_RE  (['\"])(?:(?=(\\?))\2.)*?\1
QuotedStrEnd(t, i) ==
    IF t[i] \in {"'", "\""} THEN QuoteClose(t, i + 1, t[i]) ELSE 0

\* _PLAIN_INT_RE  \b\d+\b
PlainIntEnd(t, i) ==
    IF t[i] \in Digits /\ Boundary(t, i - 1)
    THEN LET d == RunEnd(t, i, Digits)
         IN  IF Boundary(t, d) THEN d ELSE 0
    ELSE 0

\* _WHITESPACE_RE  \s+
WhitespaceEnd(t, i) ==
    IF t[i] \in Whitespace THEN RunEnd(t, i, Whitespace) ELSE 0

MatchEnd(p, t, i) ==
    CASE p = "WINDOWS_PATH" -> WindowsPathEnd(t, i)
      [] p = "UNIX_PATH" -> UnixPathEnd(t, i)
      [] p = "LINE_NUMBER" -> LineNumberEnd(t, i)
      [] p = "HEX" -> HexEnd(t, i)
      [] p = "QUOTED_STR" -> QuotedStrEnd(t, i)
      [] p = "PLAIN_INT" -> PlainIntEnd(t, i)
      [] p = "WHITESPACE" -> WhitespaceEnd(t, i)

\* pattern.sub(repl, t): leftmost non-overlapping matches, scanned from i
RECURSIVE SubFrom(_, _, _, _)
SubFrom(p, repl, t, i) ==
    IF i > Len(t) THEN <<>>
    ELSE LET e == MatchEnd(p, t, i)
         IN  IF e >= i
             THEN repl \o SubFrom(p, repl, t, e + 1)
             ELSE <<t[i]>> \o SubFrom(p, repl, t, i + 1)

Sub(p, repl, t) == SubFrom(p, repl, t, 1)

\* preprocess.normalize_text (the None case is the empty text)
normalize_text(s) ==
    LET t0 == Lower(Strip(s))
        t1 == Sub("WINDOWS_PATH", PATH_TOKEN, t0)
        t2 == Sub("UNIX_PATH", PATH_TOKEN, t1)
        t3 == Sub("LINE_NUMBER", LINE_TOKEN, t2)
        t4 == Sub("HEX", HEX_TOKEN, t3)
        t5 == Sub("QUOTED_STR", STR_TOKEN, t4)
        t6 == Sub("PLAIN_INT", NUM_TOKEN, t5)
    IN  Strip(Sub("WHITESPACE", SPACE_TOKEN, t6))

(***************************************************************************)
(* rules.py                                                                *)
(***************************************************************************)
\* the ordered rule table; a "lit" rule is \b<lit> with a closing \b when tb
_RULES == <<
    [family |-> "import_error", kind |-> "lit", tb |-> TRUE,
     lit |-> <<"m","o","d","u","l","e","N","o","t","F","o","u","n","d","E","r","r","o","r">>],
    [family |-> "import_error", kind |-> "lit", tb |-> TRUE,
     lit |-> <<"i","m","p","o","r","t","e","r","r","o","r">>],
    [family |-> "import_error", kind |-> "lit", tb |-> TRUE,
     lit |-> <<"n","o"," ","m","o","d","u","l","e"," ","n","a","m","e","d">>],
    [family |-> "import_error", kind |-> "lit", tb |-> TRUE,
     lit |-> <<"c","a","n","n","o","t"," ","i","m","p","o","r","t"," ","n","a","m","e">>],
    [family |-> "syntax_error", kind |-> "lit", tb |-> TRUE,
     lit |-> <<"s","y","n","t","a","x","e","r","r","o","r">>],
    [family |-> "syntax_error", kind |-> "lit", tb |-> TRUE,
     lit |-> <<"i","n","d","e","n","t","a","t","i","o","n","e","r","r","o","r">>],
    [family |-> "syntax_error", kind |-> "lit", tb |-> TRUE,
     lit |-> <<"u","n","e","x","p","e","c","t","e","d"," ","i","n","d","e","n","t">>],
    [family |-> "syntax_error", kind |-> "lit", tb |-> TRUE,
     lit |-> <<"e","x","p","e","c","t","e","d"," ","a","n"," ","i","n","d","e","n","t","e","d"," ","b","l","o","c","k">>],
    [family |-> "type_error", kind |-> "lit", tb |-> TRUE,
     lit |-> <<"t","y","p","e","e","r","r","o","r">>],
    [family |-> "type_error", kind |-> "lit", tb |-> TRUE,
     lit |-> <<"n","o","t"," ","c","a","l","l","a","b","l","e">>],
    [family |-> "type_error", kind |-> "lit", tb |-> FALSE,
     lit |-> <<"u","n","s","u","p","p","o","r","t","e","d"," ","o","p","e","r","a","n","d"," ","t","y","p","e">>],
    [family |-> "type_error", kind |-> "lit", tb |-> TRUE,
     lit |-> <<"h","a","s"," ","n","o"," ","l","e","n","(",")">>],
    [family |-> "value_error", kind |-> "lit", tb |-> TRUE,
     lit |-> <<"v","a","l","u","e","e","r","r","o","r">>],
    [family |-> "value_error", kind |-> "lit", tb |-> FALSE,
     lit |-> <<"i","n","v","a","l","i","d"," ","l","i","t","e","r","a","l"," ","f","o","r"," ","i","n","t","(",")">>],
    [family |-> "value_error", kind |-> "lit", tb |-> TRUE,
     lit |-> <<"c","o","u","l","d"," ","n","o","t"," ","c","o","n","v","e","r","t"," ","s","t","r","i","n","g"," ","t","o"," ","f","l","o","a","t">>],
    [family |-> "value_error", kind |-> "lit", tb |-> TRUE,
     lit |-> <<"l","i","s","t",".","r","e","m","o","v","e","(","x",")",":"," ","x"," ","n","o","t"," ","i","n"," ","l","i","s","t">>],
    [family |-> "attribute_error", kind |-> "lit", tb |-> TRUE,
     lit |-> <<"a","t","t","r","i","b","u","t","e","e","r","r","o","r">>],
    [family |-> "attribute_error", kind |-> "lit", tb |-> TRUE,
     lit |-> <<"h","a","s"," ","n","o"," ","a","t","t","r","i","b","u","t","e">>],
    [family |-> "attribute_error", kind |-> "nonetype", lit |-> <<>>, tb |-> TRUE],
    [family |-> "key_error", kind |-> "lit", tb |-> TRUE,
     lit |-> <<"k","e","y","e","r","r","o","r">>],
    [family |-> "key_error", kind |-> "barekey", lit |-> <<>>, tb |-> FALSE],
    [family |-> "index_error", kind |-> "lit", tb |-> TRUE,
     lit |-> <<"i","n","d","e","x","e","r","r","o","r">>],
    [family |-> "index_error", kind |-> "lit", tb |-> TRUE,
     lit |-> <<"l","i","s","t"," ","i","n","d","e","x"," ","o","u","t"," ","o","f"," ","r","a","n","g","e">>],
    [family |-> "file_error", kind |-> "lit", tb |-> TRUE,
     lit |-> <<"f","i","l","e","n","o","t","f","o","u","n","d","e","r","r","o","r">>],
    [family |-> "file_error", kind |-> "lit", tb |-> TRUE,
     lit |-> <<"p","e","r","m","i","s","s","i","o","n","e","r","r","o","r">>],
    [family |-> "file_error", kind |-> "lit", tb |-> TRUE,
     lit |-> <<"n","o"," ","s","u","c","h"," ","f","i","l","e"," ","o","r"," ","d","i","r","e","c","t","o","r","y">>],
    [family |-> "file_error", kind |-> "lit", tb |-> TRUE,
     lit |-> <<"p","e","r","m","i","s","s","i","o","n"," ","d","e","n","i","e","d">>],
    [family |-> "zero_division", kind |-> "lit", tb |-> TRUE,
     lit |-> <<"z","e","r","o","d","i","v","i","s","i","o","n","e","r","r","o","r">>],
    [family |-> "zero_division", kind |-> "lit", tb |-> TRUE,
     lit |-> <<"d","i","v","i","s","i","o","n"," ","b","y"," ","z","e","r","o">>],
    [family |-> "zero_division", kind |-> "lit", tb |-> TRUE,
     lit |-> <<"i","n","t","e","g","e","r"," ","d","i","v","i","s","i","o","n"," ","o","r"," ","m","o","d","u","l","o"," ","b","y"," ","z","e","r","o">>],
    [family |-> "connection_error", kind |-> "lit", tb |-> TRUE,
     lit |-> <<"r","e","q","u","e","s","t","s",".","e","x","c","e","p","t","i","o","n","s",".","t","i","m","e","o","u","t">>],
    [family |-> "connection_error", kind |-> "lit", tb |-> TRUE,
     lit |-> <<"r","e","q","u","e","s","t","s",".","e","x","c","e","p","t","i","o","n","s",".","c","o","n","n","e","c","t","i","o","n","e","r","r","o","r">>],
    [family |-> "connection_error", kind |-> "lit", tb |-> TRUE,
     lit |-> <<"r","e","a","d"," ","t","i","m","e","d"," ","o","u","t">>],
    [family |-> "connection_error", kind |-> "lit", tb |-> TRUE,
     lit |-> <<"c","o","n","n","e","c","t","i","o","n"," ","r","e","f","u","s","e","d">>]
>>

NoDecision == "None"

\* the literal, compared as re.IGNORECASE compares it
LitAtCI(lit, t, i) ==
    /\ i >= 1
    /\ i + Len(lit) - 1 <= Len(t)
    /\ \A k \in 1..Len(lit) : LowerChar(t[i + k - 1]) = LowerChar(lit[k])

\* \b<lit> (and \b after it when tb) matched at position i
WordLitAt(lit, tb, t, i) ==
    /\ LitAtCI(lit, t, i)
    /\ Boundary(t, i - 1)
    /\ tb => Boundary(t, i + Len(lit) - 1)

NONETYPE == <<"n","o","n","e","t","y","p","e">>
HAS_NO_ATTRIBUTE ==
    <<"h","a","s"," ","n","o"," ","a","t","t","r","i","b","u","t","e">>

\* \bnonetype\b.*\bhas no attribute\b : both on one line, in this order
NoneTypeSearch(t) ==
    \E i \in 1..Len(t) :
        /\ WordLitAt(NONETYPE, TRUE, t, i)
        /\ \E j \in (i + Len(NONETYPE))..Len(t) :
              /\ WordLitAt(HAS_NO_ATTRIBUTE, TRUE, t, j)
              /\ \A k \in (i + Len(NONETYPE))..(j - 1) : t[k] # "\n"

\* [A-Za-z0-9_ -]
KeyChars == LowerLetters \cup UpperLetters \cup Digits \cup {"_", " ", "-"}

\* {1,40}
MaxKeyLen == 40

\* first index of the maximal run of characters of class S ending at i
RECURSIVE RunStart(_, _, _)
RunStart(t, i, S) ==
    IF i >= 1 /\ t[i] \in S THEN RunStart(t, i - 1, S) ELSE i + 1

\* ^\s*['\"][A-Za-z0-9_ -]{1,40}['\"]\s*$  (MULTILINE), opening quote at q
BareKeyAt(t, q) ==
    /\ t[q] \in {"'", "\""}
    /\ LET p == RunStart(t, q - 1, Whitespace \ {"\n"})
       IN  p = 1 \/ t[p - 1] = "\n"
    /\ LET e == RunEnd(t, q + 1, KeyChars)
           f == RunEnd(t, e + 2, Whitespace \ {"\n"})
       IN  /\ e - q >= 1
           /\ e - q <= MaxKeyLen
           /\ At(t, e + 1) \in {"'", "\""}
           /\ f = Len(t) \/ t[f + 1] = "\n"

\* pattern.search(text) for rule r
RuleSearch(r, t) ==
    CASE r.kind = "lit" -> \E i \in 1..Len(t) : WordLitAt(r.lit, r.tb, t, i)
      [] r.kind = "nonetype" -> NoneTypeSearch(t)
      [] r.kind = "barekey" -> \E q \in 1..Len(t) : BareKeyAt(t, q)

\* a loop that keeps going after a match: the last matching rule wins
RECURSIVE RuleLoopLast(_, _)
RuleLoopLast(t, k) ==
    IF k > Len(_RULES) THEN NoDecision
    ELSE LET rest == RuleLoopLast(t, k + 1)
         IN  IF rest # NoDecision THEN rest
             ELSE IF RuleSearch(_RULES[k], t) THEN _RULES[k].family
             ELSE NoDecision

\* the for loop of rule_predict, from rule k on
RECURSIVE RuleLoop(_, _)
RuleLoop(t, k) ==
    IF k > Len(_RULES) THEN NoDecision
    ELSE IF RuleSearch(_RULES[k], t) THEN _RULES[k].family
    ELSE RuleLoop(t, k + 1)

\* build_dataset.ERROR_FAMILIES: the ten families
ERROR_FAMILIES == {
    "import_error", "syntax_error", "type_error", "value_error",
    "attribute_error", "key_error", "index_error", "file_error",
    "zero_division", "connection_error"
}

\* a rule_predict that answers a catch-all family when no rule decides
RulePredictCatchAll(error_text) ==
    IF error_text = <<>> \/ Strip(error_text) = <<>>
    THEN NoDecision
    ELSE LET r == RuleLoop(Strip(error_text), 1)
         IN  IF r = NoDecision THEN "unknown_error" ELSE r

\* rules.rule_predict
rule_predict(error_text) ==
    IF error_text = <<>> \/ Strip(error_text) = <<>>
    THEN NoDecision
    ELSE RuleLoop(Strip(error_text), 1)

(***************************************************************************)
(* train.py: the TfidfVectorizer(ngram_range=(1, 2), min_df=2,             *)
(* max_df=0.95) fitted on the normalized training split.  A token is a     *)
(* sequence of characters, a term a sequence of one or two tokens.         *)
(***************************************************************************)
WordChars == LowerLetters \cup UpperLetters \cup Digits \cup {"_"}

\* the vectorizer's analyzer: lowercase, then the tokens \b\w\w+\b
RECURSIVE TokensFrom(_, _)
TokensFrom(t, i) ==
    IF i > Len(t) THEN <<>>
    ELSE IF t[i] \in WordChars
         THEN LET e == RunEnd(t, i, WordChars)
              IN  IF e > i
                  THEN <<SubSeq(t, i, e)>> \o TokensFrom(t, e + 1)
                  ELSE TokensFrom(t, e + 1)
         ELSE TokensFrom(t, i + 1)

Tokenize(t) == TokensFrom(Lower(t), 1)

\* ngram_range=(1, 2): the unigrams, then the bigrams, of a document
Terms(t) ==
    LET toks == Tokenize(t)
    IN  [k \in 1..Len(toks) |-> <<toks[k]>>]
        \o [k \in 1..(Len(toks) - 1) |-> <<toks[k], toks[k + 1]>>]

TermSet(t) == {Terms(t)[k] : k \in 1..Len(Terms(t))}

\* term frequency
Tf(term, t) == Cardinality({k \in 1..Len(Terms(t)) : Terms(t)[k] = term})

\* min_df=2
MIN_DF == 2
\* max_df=0.95, in percent
MAX_DF_PCT == 95
\* test_size=0.2, in percent
TEST_SIZE_PCT == 20

\* the number of held-out rows of train_test_split: ceil(test_size * n)
TestCount(n) == (n * TEST_SIZE_PCT + 99) \div 100

\* document frequency of a term over the training documents
DocFreq(term, docs) == Cardinality({d \in DOMAIN docs : term \in TermSet(docs[d])})

\* the smoothed idf ln((1 + n) / (1 + df)) + 1 is positive and falls with
\* df; it is kept as the integer 1 + n - df, which has both properties
Idf(dfreq, n) == 1 + n - dfreq

\* vectorizer.fit on the documents docs (a function from row numbers to
\* normalized texts): the vocabulary and its weights
Fit(docs) ==
    LET n == Cardinality(DOMAIN docs)
        all == UNION {TermSet(docs[d]) : d \in DOMAIN docs}
        voc == {term \in all :
                    /\ DocFreq(term, docs) >= MIN_DF
                    /\ DocFreq(term, docs) * 100 <= MAX_DF_PCT * n}
    IN  [vocabulary |-> voc,
         idf |-> [term \in voc |-> Idf(DocFreq(term, docs), n)]]

\* train.main: the vectorizer fitted on the rows of rows that held does
\* not hold out
TrainVectorizer(rows, held) ==
    Fit([k \in (1..Len(rows)) \ held |-> normalize_text(rows[k].error_text)])

\* vectorizer.transform of one normalized text: tf * idf over the frozen
\* vocabulary, before the L2 normalization (which CosineSim accounts for)
Transform(v, t) == [term \in v.vocabulary |-> Tf(term, t) * v.idf[term]]

(***************************************************************************)
(* retrieval.py                                                            *)
(***************************************************************************)
RECURSIVE SumOver(_, _)
SumOver(f, S) ==
    IF S = {} THEN 0
    ELSE LET x == CHOOSE y \in S : TRUE
         IN  f[x] + SumOver(f, S \ {x})

Dot(a, b) == SumOver([term \in DOMAIN a |-> a[term] * b[term]], DOMAIN a)

\* cosine_similarity of two vectors with non-negative entries, as the exact
\* fraction <<num, den>> of its square; a zero vector has similarity 0
CosineSim(a, b) ==
    IF Dot(a, a) = 0 \/ Dot(b, b) = 0 THEN <<0, 1>>
    ELSE <<Dot(a, b) * Dot(a, b), Dot(a, a) * Dot(b, b)>>

SimLess(x, y) == x[1] * y[2] < y[1] * x[2]
SimEq(x, y) == x[1] * y[2] = y[1] * x[2]
SimIsOne(x) == x[1] = x[2]

\* RetrievalIndex.__init__: the rows and the matrix of their vectors
RetrievalIndexInit(rows, v) ==
    [df |-> rows,
     vectorizer |-> v,
     matrix |-> [k \in 1..Len(rows) |->
                    Transform(v, normalize_text(rows[k].error_text))]]

\* whether sims.argsort() puts row i before row j: ascending similarity;
\* the default kind is not stable, so the order of equal similarities is
\* one the build decides
ArgsortBefore(sims, ties, i, j) ==
    \/ SimLess(sims[i], sims[j])
    \/ /\ SimEq(sims[i], sims[j])
       /\ IF ties = "by_index" THEN i < j ELSE i > j

\* sims.argsort()
Argsort(sims, ties) ==
    LET n == Len(sims)
        pos(i) == 1 + Cardinality({j \in 1..n : ArgsortBefore(sims, ties, j, i)})
    IN  [p \in 1..n |-> CHOOSE i \in 1..n : pos(i) = p]

\* a[::-1]
Reversed(a) == [p \in 1..Len(a) |-> a[Len(a) + 1 - p]]

\* a[:k] for k >= 0
Prefix(a, k) == SubSeq(a, 1, IF k < Len(a) THEN k ELSE Len(a))

\* query without its top_k <= 0 guard: the slice [:top_k] of a negative
\* top_k drops rows from the end instead of returning nothing
QueryNoGuard(ix, ties, s, k) ==
    LET q_vec == Transform(ix.vectorizer, normalize_text(s))
        sims == [i \in 1..Len(ix.df) |-> CosineSim(q_vec, ix.matrix[i])]
        order == Reversed(Argsort(sims, ties))
        top_idx == IF k >= 0 THEN Prefix(order, k)
                   ELSE SubSeq(order, 1, Len(order) + k)
    IN  [p \in 1..Len(top_idx) |->
            LET row == ix.df[top_idx[p]]
            IN  [id |-> row.id,
                 error_family |-> row.error_family,
                 error_text |-> row.error_text,
                 fix_text |-> row.fix_text,
                 score |-> sims[top_idx[p]]]]

\* RetrievalIndex.query
Query(ix, ties, s, k) ==
    IF k <= 0 THEN <<>>
    ELSE LET q_vec == Transform(ix.vectorizer, normalize_text(s))
             sims == [i \in 1..Len(ix.df) |-> CosineSim(q_vec, ix.matrix[i])]
             top_idx == Prefix(Reversed(Argsort(sims, ties)), k)
         IN  [p \in 1..Len(top_idx) |->
                 LET row == ix.df[top_idx[p]]
                 IN  [id |-> row.id,
                      error_family |-> row.error_family,
                      error_text |-> row.error_text,
                      fix_text |-> row.fix_text,
                      score |-> sims[top_idx[p]]]]

(***************************************************************************)
(* preprocess.combine_inputs and predict.py                                *)
(***************************************************************************)
\* an Optional value is the empty sequence (None) or a one-element sequence
None == <<>>
Some(x) == <<x>>

CODE_MARKER == <<"\n","<","C","O","D","E",">","\n">>

\* preprocess.combine_inputs(error_text, code); code is Optional
combine_inputs(error_text, c) ==
    IF c # None /\ c[1] # <<>> /\ Strip(c[1]) # <<>>
    THEN error_text \o CODE_MARKER \o c[1]
    ELSE error_text

\* LOW_CONF_THRESHOLD = 0.35; probabilities are kept in percent
LOW_CONF_THRESHOLD == 35
TOP_N_ALTERNATIVES == 3

\* sorted(pairs, key=lambda t: t[1], reverse=True): descending by
\* probability, equal probabilities in their original order
SortedDesc(pairs) ==
    LET n == Len(pairs)
        pos(i) == 1 + Cardinality({j \in 1..n :
                        \/ pairs[j][2] > pairs[i][2]
                        \/ pairs[j][2] = pairs[i][2] /\ j < i})
    IN  [p \in 1..n |-> pairs[CHOOSE i \in 1..n : pos(i) = p]]

\* _predict_family_ml that keeps the classes in the order of classes_
PredictFamilyMlUnsorted(c, label, proba) ==
    IF c.has_predict_proba
    THEN LET pairs == [i \in 1..Len(c.classes_) |-> <<c.classes_[i], proba[i]>>]
             top == Prefix(pairs, TOP_N_ALTERNATIVES)
         IN  [label |-> IF top # <<>> THEN top[1][1] ELSE label,
              conf |-> IF top # <<>> THEN Some(top[1][2]) ELSE None,
              top_candidates |-> top]
    ELSE [label |-> label, conf |-> None, top_candidates |-> <<>>]

\* _predict_family_ml, given what the classifier answers for the vector:
\* label is clf.predict(x_vec)[0], proba is clf.predict_proba(x_vec)[0]
\* (read only when the classifier has predict_proba)
_predict_family_ml(c, label, proba) ==
    IF c.has_predict_proba
    THEN LET pairs == SortedDesc([i \in 1..Len(c.classes_) |->
                                     <<c.classes_[i], proba[i]>>])
             top == Prefix(pairs, TOP_N_ALTERNATIVES)
         IN  [label |-> IF top # <<>> THEN top[1][1] ELSE label,
              conf |-> IF top # <<>> THEN Some(top[1][2]) ELSE None,
              top_candidates |-> top]
    ELSE [label |-> label, conf |-> None, top_candidates |-> <<>>]

\* key_phrase in lowered
Contains(t, lit) == \E i \in 1..Len(t) : LitAt(lit, t, i)

\* the order-keeping de-duplication at the end of _playbook_suggestions
RECURSIVE Dedup(_, _)
Dedup(xs, seen) ==
    IF xs = <<>> THEN <<>>
    ELSE IF Head(xs) \in seen THEN Dedup(Tail(xs), seen)
    ELSE <<Head(xs)>> \o Dedup(Tail(xs), seen \cup {Head(xs)})

\* the tips of the keyword_tips entries whose phrase is in the lowered text
RECURSIVE KeywordTips(_, _)
KeywordTips(tips, lowered) ==
    IF tips = <<>> THEN <<>>
    ELSE (IF Contains(lowered, Lower(Head(tips).phrase))
          THEN Head(tips).tips ELSE <<>>)
         \o KeywordTips(Tail(tips), lowered)

\* _playbook_suggestions(playbooks, family, raw_text); playbooks is a
\* function from the families it has to their sections
_playbook_suggestions(pb, fam, raw_text) ==
    IF fam \notin DOMAIN pb THEN <<>>
    ELSE Dedup(pb[fam].checklist
               \o KeywordTips(pb[fam].keyword_tips, Lower(raw_text)), {})

\* what main prints, one event per print helper
Event(kind, fam, detail) == [kind |-> kind, family |-> fam, detail |-> detail]

\* _print_header
HeaderEvent(fam, m, conf) == Event("header", fam, <<m, conf>>)

\* _print_single_checklist under the title "Fix checklist:"
ChecklistEvent(fam, suggestions) == Event("fix_checklist", fam, suggestions)

\* a printer that shows the checklist of the first candidate only
PrintWinnerChecklistOnly(pb, cands, raw) ==
    IF cands = <<>>
    THEN <<Event("no_probability_information", "", <<>>)>>
    ELSE <<Event("low_confidence_intro", "", <<>>),
           Event("candidate_checklist", cands[1][1],
                 <<cands[1][2], _playbook_suggestions(pb, cands[1][1], raw)>>)>>

\* _print_multi_checklists_for_low_confidence
_print_multi_checklists_for_low_confidence(pb, cands, raw) ==
    IF cands = <<>>
    THEN <<Event("no_probability_information", "", <<>>)>>
    ELSE <<Event("low_confidence_intro", "", <<>>)>>
         \o [i \in 1..Len(cands) |->
                Event("candidate_checklist", cands[i][1],
                      <<cands[i][2], _playbook_suggestions(pb, cands[i][1], raw)>>)]

\* _print_request_exact_error
RequestExactErrorEvent == Event("request_exact_error", "", <<>>)

\* _print_similar_cases
SimilarCasesEvent(cases) == Event("similar_cases", "", cases)

\* the branch condition with <= for <
LowConfidenceAtMost(m, conf) ==
    m = "ml" /\ conf # None /\ conf[1] <= LOW_CONF_THRESHOLD

\* the branch condition of main
LowConfidence(m, conf) ==
    m = "ml" /\ conf # None /\ conf[1] < LOW_CONF_THRESHOLD

(***************************************************************************)
(* Bounded inputs: texts made of at most n fragments                       *)
(***************************************************************************)
RECURSIVE FragTexts(_, _)
FragTexts(F, n) ==
    IF n = 0 THEN {<<>>}
    ELSE LET S == FragTexts(F, n - 1)
         IN  S \cup {f \o t : f \in F, t \in S}

NormFrags == {
    <<"F","i","l","e"," ","\"","a",".","p","y","\"",","," ">>,
    <<"F","i","l","e"," ","\"","/","a",".","p","y","\"",","," ">>,
    <<"l","i","n","e"," ","4","2">>,
    <<" ">>,
    <<"0","x","1","f">>,
    <<"'","k","'">>,
    <<"\n">>,
    <<"7">>,
    <<"C",":","\\","b">>
}
MaxNormFrags == 3

RuleFrags == {
    <<"K","e","y","E","r","r","o","r">>,
    <<"T","y","p","e","E","r","r","o","r">>,
    <<" ">>,
    <<"'","u","s","e","r","_","i","d","'">>,
    <<"\n">>,
    <<"n","o"," ","m","o","d","u","l","e"," ","n","a","m","e","d">>,
    <<"x">>
}
MaxRuleFrags == 3

\* the labelled cases a corpus file is made of
CasePool == {
    [id |-> "3", error_family |-> "key_error", fix_text |-> "fix 3",
     error_text |-> <<"K","e","y","E","r","r","o","r",":"," ","'","a","'">>],
    [id |-> "1", error_family |-> "key_error", fix_text |-> "fix 1",
     error_text |-> <<"K","e","y","E","r","r","o","r",":"," ","'","b","'">>],
    [id |-> "4", error_family |-> "type_error", fix_text |-> "fix 4",
     error_text |-> <<"T","y","p","e","E","r","r","o","r",":"," ","'","a","'">>],
    [id |-> "2", error_family |-> "key_error", fix_text |-> "fix 2",
     error_text |-> <<"K","e","y","E","r","r","o","r",":"," ","7">>],
    [id |-> "5", error_family |-> "value_error", fix_text |-> "fix 5",
     error_text |-> <<"o","o","p","s">>]
}
MaxCorpus == 4

\* the corpus files: up to MaxCorpus distinct cases, in any order
RECURSIVE CorporaOf(_)
CorporaOf(n) ==
    IF n = 0 THEN {<<>>}
    ELSE LET S == CorporaOf(n - 1)
         IN  S \cup {Append(c, x) : c \in {d \in S : Len(d) = n - 1},
                                    x \in CasePool} 

Injective(c) == \A i, j \in 1..Len(c) : i # j => c[i].id # c[j].id

Corpora == {c \in CorporaOf(MaxCorpus) : Len(c) >= 1 /\ Injective(c)}

\* the held-out sets train_test_split may draw
HeldOuts(n) == {h \in SUBSET (1..n) : Cardinality(h) = TestCount(n)}

\* fit raises when max_df admits fewer documents than min_df, and when no
\* term is left
FitOk(rows, held) ==
    LET n == Len(rows) - Cardinality(held)
    IN  /\ MAX_DF_PCT * n >= MIN_DF * 100
        /\ TrainVectorizer(rows, held).vocabulary # {}

QueryTexts == {c.error_text : c \in CasePool} \cup {<<"K","e","y","E","r","r","o","r">>}
MaxTopK == 5
TopKs == (-1)..MaxTopK

\* the --text, --code and top_k arguments of a run
ReqTexts == {
    <<"M","o","d","u","l","e","N","o","t","F","o","u","n","d","E","r","r","o","r",":"," ","N","o"," ","m","o","d","u","l","e"," ","n","a","m","e","d"," ","'","r","e","q","u","e","s","t","s","'">>,
    <<"'","u","s","e","r","_","i","d","'">>,
    <<"i","t"," ","b","r","o","k","e">>
}
ReqCodes == {None, Some(<<" ", " ">>), Some(<<"d","[","'","k","'","]">>)}
ReqTopKs == {0, 1, MaxTopK}

CaseById(i) == CHOOSE c \in CasePool : c.id = i

\* the corpus file of a run
ReqCorpora == {<<CaseById("5"), CaseById("2"), CaseById("3"), CaseById("4")>>}

\* what models/clf.joblib may hold
ClassLists == {
    <<"key_error", "type_error">>,
    <<"attribute_error", "key_error", "type_error", "value_error">>
}
Classifiers ==
    {[has_predict_proba |-> b, classes_ |-> cl] : b \in BOOLEAN, cl \in ClassLists}

\* what predict_proba may answer, in percent, in the order of classes_
ProbaDists == {
    <<50, 50>>, <<30, 70>>, <<100, 0>>,
    <<20, 20, 20, 40>>, <<25, 17, 30, 28>>, <<35, 35, 15, 15>>,
    <<25, 25, 25, 25>>, <<34, 33, 33, 0>>
}

\* the sections by family of a debugassist/playbooks.yaml; the file may
\* also be missing, empty, or parse to something that is no dictionary
PLAYBOOKS ==
    "import_error" :>
        [checklist |-> <<"pip install the module", "check the virtualenv">>,
         keyword_tips |->
            <<[phrase |-> <<"N","o"," ","m","o","d","u","l","e"," ","n","a","m","e","d">>,
               tips |-> <<"check the virtualenv", "check the spelling">>],
              [phrase |-> <<"c","i","r","c","u","l","a","r">>,
               tips |-> <<"break the import cycle">>]>>]
    @@ "key_error" :>
        [checklist |-> <<"use dict.get">>,
         keyword_tips |-> <<[phrase |-> <<"d","[">>,
                             tips |-> <<"print the keys of d">>]>>]
    @@ "type_error" :>
        [checklist |-> <<"check the operand types">>, keyword_tips |-> <<>>]

\* yaml.safe_load(f) or {} for a file that parses to a dictionary
PlaybookData(f) == IF f = "ok" THEN PLAYBOOKS ELSE <<>>

NormIdle == nPc = "off" /\ nIn = <<>> /\ nOut = <<>> /\ nAgain = <<>>
RuleIdle == rPc = "off" /\ rIn = <<>> /\ rOut = NoDecision
NoVectorizer == [vocabulary |-> {}, idf |-> <<>>]
NoIndex == [df |-> <<>>, vectorizer |-> NoVectorizer, matrix |-> <<>>]
FilesIdle == df = <<>> /\ vectorizer = NoVectorizer /\ argsortTies = "by_index"
IdxIdle ==
    index = NoIndex /\ iPc = "off" /\ qText = <<>> /\ qTopK = 0 /\ results = <<>>
NoClf == [has_predict_proba |-> FALSE, classes_ |-> <<>>]
EnvIdle ==
    /\ tfidfExists = FALSE /\ clfExists = FALSE /\ playbookFile = "missing"
    /\ dataFile = "missing"
LocalsInit ==
    /\ raw_input = <<>> /\ family = NoDecision /\ method = "rules"
    /\ confidence = None /\ top_candidates = <<>> /\ clf = NoClf
    /\ playbooks = <<>> /\ calls = <<>> /\ out = <<>> /\ error = "none"
ReqIdle ==
    pc = "off" /\ text = <<>> /\ code = None /\ top_k = 0 /\ LocalsInit

(***************************************************************************)
(* SpecNorm: normalize_text on a text, then on its own output              *)
(***************************************************************************)
NormInit ==
    /\ nPc = "start"
    /\ nIn \in FragTexts(NormFrags, MaxNormFrags)
    /\ nOut = <<>>
    /\ nAgain = <<>>
    /\ RuleIdle /\ FilesIdle /\ IdxIdle /\ EnvIdle /\ ReqIdle

Normalize ==
    /\ nPc = "start"
    /\ nOut' = normalize_text(nIn)
    /\ nPc' = "once"
    /\ UNCHANGED <<nIn, nAgain, ruleVars, fileVars, idxVars, envVars, argVars, reqVars>>

NormalizeAgain ==
    /\ nPc = "once"
    /\ nAgain' = normalize_text(nOut)
    /\ nPc' = "twice"
    /\ UNCHANGED <<nIn, nOut, ruleVars, fileVars, idxVars, envVars, argVars, reqVars>>

NormNext == Normalize \/ NormalizeAgain

SpecNorm == NormInit /\ [][NormNext]_vars

(***************************************************************************)
(* SpecRules: rule_predict on a text                                       *)
(***************************************************************************)
RuleInit ==
    /\ rPc = "start"
    /\ rIn \in FragTexts(RuleFrags, MaxRuleFrags)
    /\ rOut = NoDecision
    /\ NormIdle /\ FilesIdle /\ IdxIdle /\ EnvIdle /\ ReqIdle

RulePredict ==
    /\ rPc = "start"
    /\ rOut' = rule_predict(rIn)
    /\ rPc' = "done"
    /\ UNCHANGED <<rIn, normVars, fileVars, idxVars, envVars, argVars, reqVars>>

RuleNext == RulePredict

SpecRules == RuleInit /\ [][RuleNext]_vars

(***************************************************************************)
(* SpecRetrieval: an index built from the corpus file and the trained      *)
(* vectorizer, then queried                                                *)
(***************************************************************************)
RetrievalInit ==
    /\ df \in Corpora
    /\ \E held \in HeldOuts(Len(df)) :
          /\ FitOk(df, held)
          /\ vectorizer = TrainVectorizer(df, held)
    /\ argsortTies \in {"by_index", "by_index_reversed"}
    /\ index = NoIndex
    /\ iPc = "new"
    /\ qText = <<>> /\ qTopK = 0 /\ results = <<>>
    /\ NormIdle /\ RuleIdle /\ EnvIdle /\ ReqIdle

\* RetrievalIndex(df, vectorizer)
Build ==
    /\ iPc = "new"
    /\ index' = RetrievalIndexInit(df, vectorizer)
    /\ iPc' = "ready"
    /\ UNCHANGED <<qText, qTopK, results, fileVars, normVars, ruleVars, envVars, argVars, reqVars>>

\* a query that also files the query text as a new row of the index
QueryCallLearning ==
    /\ iPc = "ready"
    /\ \E s \in QueryTexts, k \in TopKs :
          /\ qText' = s
          /\ qTopK' = k
          /\ results' = Query(index, argsortTies, s, k)
          /\ index' = [index EXCEPT
                          !.df = Append(@, [id |-> "q", error_family |-> "",
                                            fix_text |-> "", error_text |-> s]),
                          !.matrix = Append(@, Transform(index.vectorizer,
                                                          normalize_text(s)))]
    /\ iPc' = "answered"
    /\ UNCHANGED <<fileVars, normVars, ruleVars, envVars, argVars, reqVars>>

\* retrieval.query(text, top_k)
QueryCall ==
    /\ iPc = "ready"
    /\ \E s \in QueryTexts, k \in TopKs :
          /\ qText' = s
          /\ qTopK' = k
          /\ results' = Query(index, argsortTies, s, k)
    /\ iPc' = "answered"
    /\ UNCHANGED <<index, fileVars, normVars, ruleVars, envVars, argVars, reqVars>>

\* the caller is done with the result list
QueryReturn ==
    /\ iPc = "answered"
    /\ iPc' = "ready"
    /\ qText' = <<>> /\ qTopK' = 0 /\ results' = <<>>
    /\ UNCHANGED <<index, fileVars, normVars, ruleVars, envVars, argVars, reqVars>>

RetrievalNext == Build \/ QueryCall \/ QueryReturn

SpecRetrieval == RetrievalInit /\ [][RetrievalNext]_vars

(***************************************************************************)
(* Spec: one run of predict.main                                           *)
(***************************************************************************)
Init ==
    /\ df \in ReqCorpora
    /\ \E held \in HeldOuts(Len(df)) :
          /\ FitOk(df, held)
          /\ vectorizer = TrainVectorizer(df, held)
    /\ text \in ReqTexts
    /\ code \in ReqCodes
    /\ top_k \in ReqTopKs
    /\ tfidfExists \in BOOLEAN
    /\ clfExists \in BOOLEAN
    /\ playbookFile \in {"missing", "not_dict", "empty", "ok"}
    /\ dataFile \in {"missing", "ok", "bad_columns"}
    /\ argsortTies \in {"by_index", "by_index_reversed"}
    /\ pc = "start"
    /\ LocalsInit
    /\ index = NoIndex /\ iPc = "off" /\ qText = <<>> /\ qTopK = 0
    /\ results = <<>>
    /\ NormIdle /\ RuleIdle

Call(op, arg) == [op |-> op, arg |-> arg]

fixed == <<normVars, ruleVars, fileVars, envVars, argVars>>

\* main without "if family is None": the model is consulted on every run
StartAlwaysMl ==
    /\ pc = "start"
    /\ raw_input' = combine_inputs(text, code)
    /\ top_candidates' = <<>>
    /\ method' = "rules"
    /\ confidence' = None
    /\ family' = rule_predict(text)
    /\ calls' = Append(calls, Call("rule_predict", <<text>>))
    /\ pc' = "load_model"
    /\ UNCHANGED <<clf, playbooks, out, error, idxVars, fixed>>

\* main, lines 200-206
Start ==
    /\ pc = "start"
    /\ raw_input' = combine_inputs(text, code)
    /\ top_candidates' = <<>>
    /\ method' = "rules"
    /\ confidence' = None
    /\ family' = rule_predict(text)
    /\ calls' = Append(calls, Call("rule_predict", <<text>>))
    /\ pc' = IF family' = NoDecision THEN "load_model" ELSE "load_playbooks"
    /\ UNCHANGED <<clf, playbooks, out, error, idxVars, fixed>>

\* main, line 209: _load_model
LoadModel ==
    /\ pc = "load_model"
    /\ calls' = Append(calls, Call("_load_model", <<>>))
    /\ IF ~tfidfExists \/ ~clfExists
       THEN /\ error' = "FileNotFoundError: Model files not found. Run build_dataset, train"
            /\ pc' = "failed"
            /\ UNCHANGED clf
       ELSE /\ clf' \in Classifiers
            /\ pc' = "predict"
            /\ UNCHANGED error
    /\ UNCHANGED <<raw_input, family, method, confidence, top_candidates,
                   playbooks, out, idxVars, fixed>>

\* the ML step that keeps the confidence but drops the candidate list
PredictMlNoCandidates ==
    /\ pc = "predict"
    /\ \E i \in 1..Len(clf.classes_) :
       \E proba \in {d \in ProbaDists : Len(d) = Len(clf.classes_)} :
          LET r == _predict_family_ml(clf, clf.classes_[i], proba)
          IN  /\ family' = r.label
              /\ confidence' = r.conf
              /\ top_candidates' = <<>>
              /\ calls' = calls
                    \o <<Call("normalize_text", <<raw_input>>),
                         Call("vectorizer.transform", <<>>),
                         Call("clf.predict", <<clf.classes_[i]>>)>>
                    \o (IF clf.has_predict_proba
                        THEN <<Call("clf.predict_proba", proba)>> ELSE <<>>)
    /\ method' = "ml"
    /\ pc' = "load_playbooks"
    /\ UNCHANGED <<raw_input, clf, playbooks, out, error, idxVars, fixed>>

\* main, lines 210-211: _predict_family_ml, method = "ml"
PredictMl ==
    /\ pc = "predict"
    /\ \E i \in 1..Len(clf.classes_) :
       \E proba \in {d \in ProbaDists : Len(d) = Len(clf.classes_)} :
          LET r == _predict_family_ml(clf, clf.classes_[i], proba)
          IN  /\ family' = r.label
              /\ confidence' = r.conf
              /\ top_candidates' = r.top_candidates
              /\ calls' = calls
                    \o <<Call("normalize_text", <<raw_input>>),
                         Call("vectorizer.transform", <<>>),
                         Call("clf.predict", <<clf.classes_[i]>>)>>
                    \o (IF clf.has_predict_proba
                        THEN <<Call("clf.predict_proba", proba)>> ELSE <<>>)
    /\ method' = "ml"
    /\ pc' = "load_playbooks"
    /\ UNCHANGED <<raw_input, clf, playbooks, out, error, idxVars, fixed>>

\* main, line 213: _load_playbooks
LoadPlaybooks ==
    /\ pc = "load_playbooks"
    /\ calls' = Append(calls, Call("_load_playbooks", <<>>))
    /\ IF playbookFile = "missing"
       THEN /\ error' = "FileNotFoundError: playbooks.yaml not found. Create debugassist/playbooks.yaml first"
            /\ pc' = "failed"
            /\ UNCHANGED playbooks
       ELSE IF playbookFile = "not_dict"
       THEN /\ error' = "ValueError: playbooks.yaml must parse to a dictionary"
            /\ pc' = "failed"
            /\ UNCHANGED playbooks
       ELSE /\ playbooks' = PlaybookData(playbookFile)
            /\ pc' = "header"
            /\ UNCHANGED error
    /\ UNCHANGED <<raw_input, family, method, confidence, top_candidates,
                   clf, out, idxVars, fixed>>

\* main, line 215: _print_header
PrintHeader ==
    /\ pc = "header"
    /\ out' = Append(out, HeaderEvent(family, method, confidence))
    /\ pc' = "branch"
    /\ UNCHANGED <<raw_input, family, method, confidence, top_candidates,
                   clf, playbooks, calls, error, idxVars, fixed>>

\* main, lines 217-222: the low-confidence branch
LowConfidenceBranch ==
    /\ pc = "branch"
    /\ LowConfidence(method, confidence)
    /\ calls' = calls \o [i \in 1..Len(top_candidates) |->
                            Call("_playbook_suggestions", <<top_candidates[i][1]>>)]
    /\ out' = out
              \o _print_multi_checklists_for_low_confidence(
                     playbooks, top_candidates, raw_input)
              \o <<RequestExactErrorEvent>>
    /\ pc' = "done"
    /\ UNCHANGED <<raw_input, family, method, confidence, top_candidates,
                   clf, playbooks, error, idxVars, fixed>>

\* main, lines 224-225: the checklist of the winning family
FixChecklist ==
    /\ pc = "branch"
    /\ ~LowConfidence(method, confidence)
    /\ calls' = Append(calls, Call("_playbook_suggestions", <<family>>))
    /\ out' = Append(out, ChecklistEvent(family,
                  _playbook_suggestions(playbooks, family, raw_input)))
    /\ pc' = "load_index"
    /\ UNCHANGED <<raw_input, family, method, confidence, top_candidates,
                   clf, playbooks, error, idxVars, fixed>>

\* main, line 227: RetrievalIndex.load_default
LoadIndex ==
    /\ pc = "load_index"
    /\ calls' = Append(calls, Call("RetrievalIndex.load_default", <<>>))
    /\ IF dataFile = "missing"
       THEN /\ error' = "FileNotFoundError: Dataset not found. Run build_dataset.py first"
            /\ pc' = "failed"
            /\ UNCHANGED index
       ELSE IF ~tfidfExists
       THEN /\ error' = "FileNotFoundError: Vectorizer not found. Run train.py first"
            /\ pc' = "failed"
            /\ UNCHANGED index
       ELSE IF dataFile = "bad_columns"
       THEN /\ error' = "ValueError: CSV must contain columns"
            /\ pc' = "failed"
            /\ UNCHANGED index
       ELSE /\ index' = RetrievalIndexInit(df, vectorizer)
            /\ pc' = "query"
            /\ UNCHANGED error
    /\ UNCHANGED <<raw_input, family, method, confidence, top_candidates,
                   clf, playbooks, out, iPc, qText, qTopK, results, fixed>>

\* a query on the error text alone, without the code snippet
QueryIndexTextOnly ==
    /\ pc = "query"
    /\ qText' = text
    /\ qTopK' = top_k
    /\ results' = Query(index, argsortTies, text, top_k)
    /\ calls' = Append(calls, Call("RetrievalIndex.query", <<text, top_k>>))
    /\ out' = Append(out, SimilarCasesEvent(results'))
    /\ pc' = "done"
    /\ UNCHANGED <<raw_input, family, method, confidence, top_candidates,
                   clf, playbooks, error, index, iPc, fixed>>

\* main, lines 228-229: retrieval.query and _print_similar_cases
QueryIndex ==
    /\ pc = "query"
    /\ qText' = raw_input
    /\ qTopK' = top_k
    /\ results' = Query(index, argsortTies, raw_input, top_k)
    /\ calls' = Append(calls, Call("RetrievalIndex.query", <<raw_input, top_k>>))
    /\ out' = Append(out, SimilarCasesEvent(results'))
    /\ pc' = "done"
    /\ UNCHANGED <<raw_input, family, method, confidence, top_candidates,
                   clf, playbooks, error, index, iPc, fixed>>

Next ==
    \/ Start
    \/ LoadModel
    \/ PredictMl
    \/ LoadPlaybooks
    \/ PrintHeader
    \/ LowConfidenceBranch
    \/ FixChecklist
    \/ LoadIndex
    \/ QueryIndex

Spec == Init /\ [][Next]_vars

(***************************************************************************)
(* Properties                                                              *)
(***************************************************************************)
\* the runs of main that got past their first step
Started == pc \notin {"off", "start"}

\* what rule_predict answers for each --text argument
RuleOf == [t \in ReqTexts |-> rule_predict(t)]

CallOps == {calls[i].op : i \in 1..Len(calls)}
OutKinds == {out[i].kind : i \in 1..Len(out)}
CallsOf(op) == SelectSeq(calls, LAMBDA c : c.op = op)
OutOf(kind) == SelectSeq(out, LAMBDA e : e.kind = kind)

MlOps == {"_load_model", "vectorizer.transform", "clf.predict", "clf.predict_proba"}

(* C1: in a run whose rule_predict(text) returns a family, the ML path is
   never entered (no model load, no transform, no predict, no predict_proba)
   and the result is (family, rules, no confidence, no candidates); the ML
   path is entered only when rule_predict returned no decision. *)
RuleMlExclusive ==
    Started =>
        /\ RuleOf[text] # NoDecision =>
              /\ CallOps \cap MlOps = {}
              /\ family = RuleOf[text]
              /\ method = "rules"
              /\ confidence = None
              /\ top_candidates = <<>>
        /\ CallOps \cap MlOps # {} => RuleOf[text] = NoDecision

\* a run decided by the rules that went all the way without the model
RuleMlExclusiveWitness ==
    /\ pc = "done"
    /\ RuleOf[text] = "key_error"
    /\ family = "key_error" /\ method = "rules"
    /\ CallOps \cap MlOps = {}
    /\ "similar_cases" \in OutKinds

\* the run printed its checklist(s): the branch of line 217 is behind it
BranchTaken == OutKinds \cap {"fix_checklist", "request_exact_error"} # {}
TookLowConfidence == "request_exact_error" \in OutKinds

(* C2: the low-confidence branch is taken if and only if method = ml and the
   confidence is known and strictly below 0.35 (0.30 takes it, 0.35 and 0.40
   do not, a rules result never does); with a classifier without
   predict_proba the confidence is unknown, the candidates are empty, the
   family is the label predict returned, and the branch is skipped. *)
LowConfidenceIff ==
    /\ BranchTaken =>
          (TookLowConfidence <=>
              (method = "ml" /\ confidence # None /\ confidence[1] < 35))
    /\ (method = "ml" /\ ~clf.has_predict_proba) =>
          /\ confidence = None
          /\ top_candidates = <<>>
          /\ family = CallsOf("clf.predict")[1].arg[1]
          /\ ~TookLowConfidence

\* a top probability of 0.30 took the branch
LowConfidenceIffWitness ==
    /\ TookLowConfidence
    /\ method = "ml"
    /\ confidence = Some(30)

(* C3: a run that takes the low-confidence branch prints one fix checklist
   per top candidate, all of them and in candidate order, then the prompt
   for the exact error, and stops: the retrieval index is neither loaded nor
   queried and no similar cases are printed. *)
LowConfidenceOutput ==
    TookLowConfidence =>
        LET lists == OutOf("candidate_checklist")
        IN  /\ Len(top_candidates) >= 1
            /\ Len(lists) = Len(top_candidates)
            /\ \A i \in 1..Len(lists) :
                  /\ lists[i].family = top_candidates[i][1]
                  /\ lists[i].detail[2] =
                        _playbook_suggestions(playbooks, top_candidates[i][1],
                                              raw_input)
            /\ out[Len(out)].kind = "request_exact_error"
            /\ \A i \in 1..Len(out) :
                  out[i].kind = "candidate_checklist" => i < Len(out) /\ i > 1
            /\ "fix_checklist" \notin OutKinds
            /\ "similar_cases" \notin OutKinds
            /\ CallOps \cap {"RetrievalIndex.load_default", "RetrievalIndex.query"} = {}
            /\ index = NoIndex /\ results = <<>>
            /\ pc = "done"

\* the candidates (type_error, 0.30), (value_error, 0.28),
\* (attribute_error, 0.25) were answered with three checklists
LowConfidenceOutputWitness ==
    /\ TookLowConfidence
    /\ top_candidates = <<<<"type_error", 30>>, <<"value_error", 28>>,
                          <<"attribute_error", 25>>>>
    /\ Len(OutOf("candidate_checklist")) = 3

AllArtifactsPresent ==
    /\ tfidfExists /\ clfExists
    /\ playbookFile \in {"empty", "ok"}
    /\ dataFile = "ok"

(* C4: a run that does not take the low-confidence branch and has all its
   artifacts looks up exactly one fix checklist, that of the winning family,
   then queries the retrieval index with the combined raw input and the
   requested top_k, and prints both; with all artifacts present no run
   fails. *)
ChecklistThenRetrieval ==
    /\ (pc = "done" /\ ~TookLowConfidence) =>
          /\ Len(CallsOf("_playbook_suggestions")) = 1
          /\ CallsOf("_playbook_suggestions")[1].arg = <<family>>
          /\ Len(CallsOf("RetrievalIndex.query")) = 1
          /\ CallsOf("RetrievalIndex.query")[1].arg
                = <<combine_inputs(text, code), top_k>>
          /\ calls[Len(calls)].op = "RetrievalIndex.query"
          /\ Len(out) = 3
          /\ out[1] = HeaderEvent(family, method, confidence)
          /\ out[2].kind = "fix_checklist" /\ out[2].family = family
          /\ out[3].kind = "similar_cases" /\ out[3].detail = results
          /\ Len(results) = IF top_k <= 0 THEN 0
                            ELSE IF top_k < Len(df) THEN top_k ELSE Len(df)
    /\ AllArtifactsPresent => pc # "failed"

\* "ModuleNotFoundError: No module named 'requests'" went through the rules
\* to import_error, its checklist and the similar cases
ChecklistThenRetrievalWitness ==
    /\ pc = "done"
    /\ text = <<"M","o","d","u","l","e","N","o","t","F","o","u","n","d","E","r","r","o","r",":"," ","N","o"," ","m","o","d","u","l","e"," ","n","a","m","e","d"," ","'","r","e","q","u","e","s","t","s","'">>
    /\ code # None
    /\ family = "import_error" /\ method = "rules"
    /\ out[2].kind = "fix_checklist" /\ out[2].family = "import_error"
    /\ out[3].kind = "similar_cases"

\* number of leftmost non-overlapping matches of pattern p in t from i on
RECURSIVE CountFrom(_, _, _)
CountFrom(p, t, i) ==
    IF i > Len(t) THEN 0
    ELSE LET e == MatchEnd(p, t, i)
         IN  IF e >= i THEN 1 + CountFrom(p, t, e + 1)
             ELSE CountFrom(p, t, i + 1)

\* number of positions at which the literal occurs in t
CountLit(lit, t) == Cardinality({i \in 1..Len(t) : LitAt(lit, t, i)})

\* the rules whose pattern matches the text as given
MatchingRules(t) == {k \in 1..Len(_RULES) : RuleSearch(_RULES[k], t)}

SetMin(S) == CHOOSE m \in S : \A x \in S : m <= x

(* C5: when the text matches the patterns of two or more rules, rule_predict
   returns the family of the matching rule declared earliest in _RULES,
   wherever in the text the patterns match. *)
RulePrecedence ==
    (rPc = "done" /\ Cardinality(MatchingRules(rIn)) >= 2)
        => rOut = _RULES[SetMin(MatchingRules(rIn))].family

\* "KeyError TypeError": the key_error pattern matches first in the text,
\* the type_error rule is declared first
RulePrecedenceWitness ==
    /\ rPc = "done"
    /\ rIn = <<"K","e","y","E","r","r","o","r"," ","T","y","p","e","E","r","r","o","r">>
    /\ {_RULES[k].family : k \in MatchingRules(rIn)} = {"type_error", "key_error"}
    /\ rOut = "type_error"

(* C6: normalize_text is idempotent: normalizing the output of
   normalize_text again gives the same text. *)
NormalizeIdempotent == nPc = "twice" => nAgain = nOut

(* C7: every occurrence of "line <number>" in the input appears in the
   output of normalize_text as "line <LINE>", and no "line <number>" is left
   in the output, whatever the path substitutions did to the line. *)
LineNumbersMasked ==
    nPc \in {"once", "twice"} =>
        /\ CountLit(LINE_TOKEN, nOut) >= CountFrom("LINE_NUMBER", nIn, 1)
        /\ CountFrom("LINE_NUMBER", nOut, 1) = 0

(* C8: query returns exactly min(top_k, corpus size) results when top_k > 0
   and the empty sequence when top_k <= 0. *)
QueryLength ==
    iPc = "answered" =>
        Len(results) = IF qTopK <= 0 THEN 0
                       ELSE IF qTopK < Len(df) THEN qTopK ELSE Len(df)

\* a top_k larger than the corpus was answered with corpus-size results
QueryLengthWitness ==
    /\ iPc = "answered"
    /\ qTopK > Len(df)
    /\ Len(results) = Len(df)

\* the row of the corpus file that carries the id of a result
RowOf(r) == CHOOSE k \in 1..Len(df) : df[k].id = r.id

\* the similarity of the query text and corpus row k, from the file and
\* the vectorizer
RowSim(s, k) ==
    CosineSim(Transform(vectorizer, normalize_text(s)),
              Transform(vectorizer, normalize_text(df[k].error_text)))

(* C9: the results are in descending order of similarity; among equal
   similarities the row that is earlier in the corpus comes first; every
   result carries the id, family, error text and fix text of the row whose
   vector produced its score. *)
QueryOrderEarlierFirst ==
    iPc = "answered" =>
        /\ \A p, q \in 1..Len(results) :
              p < q =>
                \/ SimLess(results[q].score, results[p].score)
                \/ /\ SimEq(results[q].score, results[p].score)
                   /\ RowOf(results[p]) < RowOf(results[q])
        /\ \A p \in 1..Len(results) :
              LET row == df[RowOf(results[p])]
              IN  /\ results[p].error_family = row.error_family
                  /\ results[p].error_text = row.error_text
                  /\ results[p].fix_text = row.fix_text
                  /\ SimEq(results[p].score, RowSim(qText, RowOf(results[p])))

\* no two rows of the corpus with the same normalized text or with vectors
\* of the same direction
NoNearDuplicates ==
    \A i, j \in 1..Len(df) :
        i # j =>
            /\ normalize_text(df[i].error_text) # normalize_text(df[j].error_text)
            /\ ~SimIsOne(RowSim(df[i].error_text, j))

(* C10: in a corpus without duplicate or near-duplicate texts, a query with
   the exact error_text of a case returns that case first, with similarity
   1.0, also when the case's normalized text has no term of the vocabulary. *)
SelfConsistency ==
    (iPc = "answered" /\ qTopK >= 1 /\ NoNearDuplicates) =>
        \A k \in 1..Len(df) :
            qText = df[k].error_text =>
                /\ results[1].id = df[k].id
                /\ SimIsOne(results[1].score)

\* a required artifact of inference is not on disk: the corpus file, the
\* vectorizer blob or the classifier blob
MissingArtifact == dataFile = "missing" \/ ~tfidfExists \/ ~clfExists

\* the messages that name the offline step to run
RemediationErrors == {
    "FileNotFoundError: Model files not found. Run build_dataset, train",
    "FileNotFoundError: Dataset not found. Run build_dataset.py first",
    "FileNotFoundError: Vectorizer not found. Run train.py first"
}

(* C11: while a required artifact (corpus file, vectorizer blob, classifier
   blob) is missing, no run of main completes its diagnosis, whichever of
   the rules, ML or low-confidence paths it follows; a run that stops on the
   missing artifact stops with a message that names the offline step. *)
MissingArtifactFatal ==
    MissingArtifact =>
        /\ pc # "done"
        /\ (pc = "failed" /\ playbookFile \in {"empty", "ok"}
                          /\ dataFile # "bad_columns")
              => error \in RemediationErrors

\* the distribution predict_proba answered in this run, in classes_ order
ProbaOfRun == CallsOf("clf.predict_proba")[1].arg

\* the position in classes_ of the label of candidate p
ClassIndex(p) ==
    CHOOSE i \in 1..Len(clf.classes_) : clf.classes_[i] = top_candidates[p][1]

(* C12: after an ML classification by a classifier with predict_proba, the
   candidates are the min(3, number of classes) most probable (family,
   probability) pairs in descending order of probability, the confidence is
   the probability of the first candidate, the family is its label, the
   method is ml, and every candidate probability is within [0, 1]. *)
TopCandidates ==
    (method = "ml" /\ clf.has_predict_proba) =>
        LET n == Len(clf.classes_)
            k == IF n < 3 THEN n ELSE 3
            chosen == {ClassIndex(p) : p \in 1..Len(top_candidates)}
        IN  /\ Len(top_candidates) = k
            /\ \A p \in 1..k :
                  /\ top_candidates[p][1] \in {clf.classes_[i] : i \in 1..n}
                  /\ top_candidates[p][2] = ProbaOfRun[ClassIndex(p)]
                  /\ top_candidates[p][2] >= 0 /\ top_candidates[p][2] <= 100
            /\ Cardinality(chosen) = k
            /\ \A p, q \in 1..k :
                  p < q => top_candidates[p][2] >= top_candidates[q][2]
            /\ \A j \in (1..n) \ chosen : ProbaOfRun[j] <= top_candidates[k][2]
            /\ confidence = Some(top_candidates[1][2])
            /\ family = top_candidates[1][1]

\* four classes with probabilities 0.20, 0.20, 0.20, 0.40: the last class
\* leads the three candidates although predict answered another label
TopCandidatesWitness ==
    /\ method = "ml" /\ clf.has_predict_proba
    /\ ProbaOfRun = <<20, 20, 20, 40>>
    /\ CallsOf("clf.predict")[1].arg[1] = "key_error"
    /\ top_candidates = <<<<"value_error", 40>>, <<"attribute_error", 20>>,
                          <<"key_error", 20>>>>
    /\ family = "value_error" /\ confidence = Some(40)

\* empty (or missing: None and "" are both falsy), or nothing but whitespace
Blank(t) == t = <<>> \/ Strip(t) = <<>>

(* C13: rule_predict returns no decision (None, which is none of the
   families) for every text that is empty, missing, whitespace-only, or
   matches no rule pattern, and every other value it returns is one of the
   ten families of ERROR_FAMILIES. *)
RuleNoDecision ==
    /\ NoDecision \notin ERROR_FAMILIES
    /\ \A k \in 1..Len(_RULES) : _RULES[k].family \in ERROR_FAMILIES
    /\ rPc = "done" =>
          /\ (Blank(rIn) \/ MatchingRules(rIn) = {}) => rOut = NoDecision
          /\ rOut # NoDecision => rOut \in ERROR_FAMILIES

\* "x x" matches no rule and a blank text of a space and a newline: both
\* were answered with no decision
RuleNoDecisionWitness ==
    /\ rPc = "done"
    /\ rOut = NoDecision
    /\ \/ rIn = <<"x", " ", "x">> /\ MatchingRules(rIn) = {}
       \/ rIn = <<" ", "\n">> /\ Blank(rIn)

\* the index as RetrievalIndex(df, vectorizer) built it
AsBuilt == RetrievalIndexInit(df, vectorizer)

(* C14: once built, the index is never changed by a query, whatever the
   texts and top_k (also <= 0) of the queries before: its rows, its matrix
   and the vocabulary of its vectorizer are those of the build, and every
   answer is the answer the freshly built index gives to that query, so a
   repeated query gets the identical result list. *)
IndexFrozen ==
    iPc \in {"ready", "answered"} =>
        LET built == AsBuilt
        IN  /\ index.df = built.df
            /\ index.matrix = built.matrix
            /\ index.vectorizer = vectorizer
            /\ index.vectorizer.vocabulary = built.vectorizer.vocabulary
            /\ iPc = "answered" =>
                  results = Query(built, argsortTies, qText, qTopK)

\* a query with top_k = -1 and a query that returned every row were both
\* answered by an index that is still as built
IndexFrozenWitness ==
    /\ iPc = "answered"
    /\ index = AsBuilt /\ Len(index.df) >= 2
    /\ \/ qTopK = -1 /\ results = <<>>
       \/ qTopK >= Len(index.df) /\ Len(results) = Len(index.df)

\* the parts of the diagnosis: the header with the predicted family and the
\* fix checklists
DiagnosisKinds ==
    {"header", "fix_checklist", "low_confidence_intro", "candidate_checklist"}

(* C15: a run that fails on a missing or malformed artifact (model blobs,
   playbook file, corpus file, vectorizer) fails before any part of the
   diagnosis is printed: no run prints the header or a fix checklist and
   then fails. *)
FailBeforeOutput ==
    pc = "failed" => OutKinds \cap DiagnosisKinds = {}

(* C16: in every state the confidence is known exactly when the candidate
   list is non-empty; a run that takes the low-confidence branch has between
   one and three candidates, and the printer of the branch never prints "No
   probability information available". *)
ConfidenceIffCandidates ==
    /\ confidence # None <=> top_candidates # <<>>
    /\ TookLowConfidence =>
          Len(top_candidates) >= 1 /\ Len(top_candidates) <= TOP_N_ALTERNATIVES
    /\ "no_probability_information" \notin OutKinds

\* the branch was taken with the four-class distribution 0.25, 0.25, 0.25,
\* 0.25: three candidates, and the introduction of the candidate checklists
ConfidenceIffCandidatesWitness ==
    /\ TookLowConfidence
    /\ confidence = Some(25)
    /\ Len(top_candidates) = 3
    /\ "low_confidence_intro" \in OutKinds

====
